---- MODULE Spec2Model ----
(***************************************************************************)
(* Digital Maturity Analysis: the generator script (src/data_generator.py) *)
(* and the dashboard (src/dashboard.py).                                   *)
(*                                                                         *)
(* Units.  Latent capability and noise are integers in thousandths of 1.0; *)
(* a dimension value before truncation is in tenths of a point; a weight   *)
(* is in thousandths.  An Overall_Maturity is an IEEE-754 double, held as  *)
(* [h, d]: the value h/100 + d / (100 * 2^59), h the nearest two-decimal   *)
(* number in hundredths and d the binary rounding error.                   *)
(***************************************************************************)
EXTENDS Integers, Sequences, FiniteSets, TLC

\* ---- bounds ----
MaxN == 6            \* largest NUM_RECORDS of a run of the generator script
MaxSalt == 31        \* number of seed-to-state mappings of numpy's generator, minus one
MaxPySeed == 1       \* number of initial states of Python's random module, minus one
MaxCallN == 2        \* largest n of a call in the call harness
MaxCoef == 1         \* fitted coefficients range over 0..MaxCoef
MaxCalls == 2        \* calls of generate_dma_data in the call harness
MaxOtherDraws == 1   \* unrelated random draws between calls in the call harness

\* ---- configuration (data_generator.py 10-13) ----
SECTORS == <<"Manufacturing", "Retail", "Healthcare", "Logistics", "Finance">>
DIMENSIONS == <<"Strategy", "Infrastructure", "Human_Centric", "Data_Mgmt", "Automation_AI", "Green_Digital">>
WEIGHTS == <<250, 150, 100, 200, 200, 100>>

VARIABLES
  pc,            \* position of the generator script
  num_records,   \* NUM_RECORDS of this run
  pyState,       \* state of Python's global random generator
  npState,       \* state of numpy's global random generator
  npSalt,        \* which seed-to-state mapping numpy's generator has
  df_before, df_after,       \* the generator script's panels
  file_before, file_after,   \* data/rawdma_before.xlsx, data/rawdma_after.xlsx
  merged,        \* the generator script's merged frame
  reports,       \* the reports written so far
  dash,          \* position of the dashboard run
  df_merged,     \* dashboard: the merged frame of load_data
  dash_df_after, \* dashboard: the after panel of load_data
  model,         \* dashboard: the fitted LinearRegression
  importance,    \* dashboard: the sorted impact frame
  calls,         \* call harness: the calls of generate_dma_data made so far
  draws          \* call harness: unrelated draws made so far

vars == <<pc, num_records, pyState, npState, npSalt, df_before, df_after,
          file_before, file_after, merged, reports, dash, df_merged,
          dash_df_after, model, importance, calls, draws>>

\* a file that does not exist
NoFile == [exists |-> FALSE, rows |-> <<>>]

\* no fitted model
NoModel == [fitted |-> FALSE, n_samples |-> 0, features |-> <<>>, coef_ |-> <<>>]

\* ---- sequences ----
Range(s) == {s[i] : i \in DOMAIN s}

Min(a, b) == IF a < b THEN a ELSE b

\* ---- random generators ----
\* Both generators are counter-based: the state is a counter, a draw is a
\* scrambling of the counter, and the counter advances by one per draw.
Scramble(s) == 37 * s + 11 * (s \div 8) + (s \div 3)

\* Python's random module: one global generator, never seeded by the code.
PyNext(s) == (s + 1) % 64

PyAt(s, k) == (s + k) % 64

random_choice(seq, s) == seq[(Scramble(s) % Len(seq)) + 1]

\* numpy's global generator: np.random.seed puts it in the state of the seed.
np_random_seed(seed) == (seed + npSalt) % 64

NpNext(s) == (s + 1) % 64

NpAt(s, k) == (s + k) % 64

\* standard normal deviates, in tenths of a standard deviation
ZTABLE == <<-30, -21, -13, -6, 0, 6, 13, 21, 30>>

StdNormal(s) == ZTABLE[(Scramble(s) % Len(ZTABLE)) + 1]

np_random_normal(loc, scale, s) == loc + (scale * StdNormal(s)) \div 10

\* ---- numeric helpers ----
np_clip_lower_only(x, lo, hi) == IF x < lo THEN lo ELSE x

np_clip(x, lo, hi) == IF x < lo THEN lo ELSE IF x > hi THEN hi ELSE x

\* astype(int) of a value in tenths: truncation toward zero
astype_int(x) == IF x >= 0 THEN x \div 10 ELSE -((-x) \div 10)

RECURSIVE SumProd(_, _, _)
SumProd(a, w, k) == IF k = 0 THEN 0 ELSE a[k] * w[k] + SumProd(a, w, k - 1)

RECURSIVE SumSeq(_, _)
SumSeq(w, k) == IF k = 0 THEN 0 ELSE w[k] + SumSeq(w, k - 1)

\* np.average(a, weights=w): sum(a * w) / sum(w), in thousandths of a point
np_average(a, w) == (SumProd(a, w, Len(w)) * 1000) \div SumSeq(w, Len(w))

\* .round(2): thousandths to hundredths, half to even
round2(x) ==
  LET q == x \div 10
      r == x % 10
  IN IF r > 5 \/ (r = 5 /\ q % 2 = 1) THEN q + 1 ELSE q

\* ---- IEEE-754 doubles ----
RECURSIVE Pow2(_)
Pow2(k) == IF k = 0 THEN 1 ELSE 2 * Pow2(k - 1)

\* 2^k mod 200, by repeated squaring
RECURSIVE Pow2Mod200(_)
Pow2Mod200(k) ==
  IF k = 0 THEN 1
  ELSE IF k % 2 = 1 THEN (2 * Pow2Mod200(k - 1)) % 200
  ELSE LET r == Pow2Mod200(k \div 2) IN (r * r) % 200

\* floor(log2(H / 100)) for H >= 1, found upward from j
RECURSIVE Exponent(_, _)
Exponent(H, j) ==
  IF j < 7 /\ H * Pow2(7) >= 100 * Pow2(j + 8) THEN Exponent(H, j + 1) ELSE j

\* the double nearest to the real number H/100 + dd / (100 * 2^59), ties to even
RECURSIVE FRound(_, _)
FRound(H, dd) ==
  IF H = 0 THEN [h |-> 0, d |-> dd]
  ELSE IF H < 0 THEN LET p == FRound(-H, -dd) IN [h |-> -p.h, d |-> -p.d]
  ELSE
    LET j0 == Exponent(H, -7)
        j == IF H * Pow2(7) = 100 * Pow2(j0 + 7) /\ dd < 0 THEN j0 - 1 ELSE j0
        k == 52 - j
        t == 59 - k
        sp == 100 * Pow2(t)
        m == ((H % 200) * Pow2Mod200(k)) % 200
        low == Pow2(t) * (m % 100)
        e == dd + low
        n == e \div sp
        rem == e - n * sp
        up == 2 * rem > sp \/ (2 * rem = sp /\ ((m \div 100) + n) % 2 = 1)
    IN [h |-> H, d |-> (IF up THEN n + 1 ELSE n) * sp - low]

\* the double of a two-decimal number, given in hundredths
F64(h) == FRound(h, 0)

FAdd(x, y) == FRound(x.h + y.h, x.d + y.d)

FSub(x, y) == FRound(x.h - y.h, x.d - y.d)

FLess(x, y) == x.h < y.h \/ (x.h = y.h /\ x.d < y.d)

\* np.maximum
np_maximum(x, y) == IF FLess(x, y) THEN y ELSE x

\* ---- generate_dma_data ----
Digit == <<"0", "1", "2", "3", "4", "5", "6", "7", "8", "9">>

RECURSIVE Str(_)
Str(i) == IF i < 10 THEN Digit[i + 1] ELSE Str(i \div 10) \o Digit[(i % 10) + 1]

RECURSIVE ZeroPad(_, _)
ZeroPad(s, w) == IF Len(s) >= w THEN s ELSE ZeroPad("0" \o s, w)

\* f"{i:04d}"
Fmt04d(i) == ZeroPad(Str(i), 4)

companies_from_zero(n) == [i \in 1..n |-> "Company_" \o Fmt04d(i - 1)]

\* [f"Company_{i:04d}" for i in range(1, n + 1)]
companies(n) == [i \in 1..n |-> "Company_" \o Fmt04d(i)]

DimCol(d) == "D_" \o d

DimCols == {DimCol(DIMENSIONS[j]) : j \in 1..Len(DIMENSIONS)}

DimIndex(c) == CHOOSE j \in 1..Len(DIMENSIONS) : DimCol(DIMENSIONS[j]) = c

Seed(state) == IF state = "before" THEN 42 ELSE 24

generate_dma_data(n, state, py) ==
  LET s0 == np_random_seed(Seed(state))
      comp == companies(n)
      loc == IF state = "before" THEN 350 ELSE 720
      base_capability ==
        [i \in 1..n |-> np_clip(np_random_normal(loc, 120, NpAt(s0, i - 1)), 100, 950)]
      noise(j, i) == np_random_normal(0, 80, NpAt(s0, n + (j - 1) * n + (i - 1)))
      dim_data ==
        [j \in 1..Len(DIMENSIONS) |->
          [i \in 1..n |-> astype_int(np_clip(base_capability[i] + noise(j, i), 0, 1000))]]
      overall(i) ==
        F64(round2(np_average([j \in 1..Len(DIMENSIONS) |-> dim_data[j][i]], WEIGHTS)))
  IN [i \in 1..n |->
       [Company_ID |-> comp[i],
        Company_Name |-> comp[i] \o " Inc.",
        Sector |-> random_choice(SECTORS, PyAt(py, i - 1)),
        Country |-> "North Macedonia"]
       @@ [c \in DimCols |-> dim_data[DimIndex(c)][i]]
       @@ [Overall_Maturity |-> overall(i)]]

\* the generators' states after a call of generate_dma_data(n, state)
NpAfter(n, state) == NpAt(np_random_seed(Seed(state)), n + Len(DIMENSIONS) * n)

PyAfter(n, py) == PyAt(py, n)

\* ---- data frames ----
\* to_excel(index=False) / read_excel: rows, strings, integers and doubles unchanged
to_excel(df) == [exists |-> TRUE, rows |-> df]

read_excel(file) == file.rows

\* df.head(k)
head(df, k) == SubSeq(df, 1, Min(k, Len(df)))

HEAD_ROWS == 5

iloc_previous(df, i) == IF i - 1 >= 0 THEN df[i] ELSE df[Len(df) + i]

\* df.iloc[i], i counted from 0, a negative i from the end
iloc(df, i) == IF i >= 0 THEN df[i + 1] ELSE df[Len(df) + i + 1]

Suffixed(row, cols, sfx) ==
  [c \in {k \o sfx : k \in cols} |-> row[CHOOSE k \in cols : k \o sfx = c]]

\* one row of an inner merge: keys once, shared columns suffixed, others as they are
MergeRow(l, r, on, sl, sr) ==
  LET shared == ((DOMAIN l) \cap (DOMAIN r)) \ on
  IN [k \in on |-> l[k]]
     @@ Suffixed(l, shared, sl)
     @@ Suffixed(r, shared, sr)
     @@ [k \in (DOMAIN l) \ (shared \cup on) |-> l[k]]
     @@ [k \in (DOMAIN r) \ (shared \cup on) |-> r[k]]

RECURSIVE MatchRows(_, _, _, _, _, _)
MatchRows(l, right, k, on, sl, sr) ==
  IF k > Len(right) THEN <<>>
  ELSE (IF \A c \in on : l[c] = right[k][c]
          THEN <<MergeRow(l, right[k], on, sl, sr)>> ELSE <<>>)
       \o MatchRows(l, right, k + 1, on, sl, sr)

RECURSIVE MergeFrom(_, _, _, _, _, _)
MergeFrom(left, right, k, on, sl, sr) ==
  IF k > Len(left) THEN <<>>
  ELSE MatchRows(left[k], right, 1, on, sl, sr) \o MergeFrom(left, right, k + 1, on, sl, sr)

\* pd.merge(left, right, on=on, suffixes=(sl, sr)): inner join in left order
pd_merge(left, right, on, sl, sr) == MergeFrom(left, right, 1, on, sl, sr)

\* ---- reports (data_generator.py 64-108) ----
\* np.linspace(start, stop, num, endpoint=False), angles in degrees
np_linspace(start, stop, num) == [k \in 1..num |-> start + ((k - 1) * (stop - start)) \div num]

closing_index_last == Len(DIMENSIONS)

\* the index of the dimension that closes the polygon: DIMENSIONS[0]
closing_index == 1

create_radar_chart(comp_id, row_b, row_a) ==
  [v_b |-> [j \in 1..Len(DIMENSIONS) |-> row_b[DimCol(DIMENSIONS[j])]]
           \o <<row_b[DimCol(DIMENSIONS[closing_index])]>>,
   v_a |-> [j \in 1..Len(DIMENSIONS) |-> row_a[DimCol(DIMENSIONS[j])]]
           \o <<row_a[DimCol(DIMENSIONS[closing_index])]>>,
   angles |-> np_linspace(0, 360, Len(DIMENSIONS)) \o <<0>>,
   path |-> "reports/chart_" \o comp_id \o ".png"]

\* the rows (dimension, before, after, delta) of the table
report_table(row) ==
  [j \in 1..Len(DIMENSIONS) |->
    LET b == row[DimCol(DIMENSIONS[j]) \o "_B"]
        a == row[DimCol(DIMENSIONS[j]) \o "_A"]
    IN <<DIMENSIONS[j], b, a, a - b>>]

\* ---- dashboard helpers ----
MERGE_KEYS == {"Company_ID", "Company_Name", "Sector", "Country"}

\* load_data: the merge and the growth column (dashboard.py 23-24)
load_data_merged(before, after) ==
  LET m == pd_merge(before, after, MERGE_KEYS, "_Before", "_After")
  IN [i \in 1..Len(m) |->
       m[i] @@ [Maturity_Growth |->
                  FSub(m[i]["Overall_Maturity_After"], m[i]["Overall_Maturity_Before"])]]

dims == <<"D_Strategy", "D_Infrastructure", "D_Human_Centric", "D_Data_Mgmt",
          "D_Automation_AI", "D_Green_Digital">>

labels_swapped == <<"Infrastructure", "Digital Strategy", "Staff Skills", "Data Usage",
                    "AI & Robotics", "Green Tech">>

labels == <<"Digital Strategy", "Infrastructure", "Staff Skills", "Data Usage",
            "AI & Robotics", "Green Tech">>

\* LinearRegression().fit(X, y): any number of rows >= 1 is fitted, with the
\* least-squares (minimum-norm) coefficients c, one per column of X
LinearRegression_fit(panel, columns, c) ==
  [fitted |-> TRUE, n_samples |-> Len(panel), features |-> columns, coef_ |-> c]

\* pd.DataFrame({'Dimension': labels, 'Impact': coef})
importance_frame(lab, coef) == [k \in 1..Len(lab) |-> [Dimension |-> lab[k], Impact |-> coef[k]]]

RECURSIVE InsertSorted(_, _)
InsertSorted(s, e) ==
  IF s = <<>> THEN <<e>>
  ELSE IF s[Len(s)]["Impact"] <= e["Impact"] THEN Append(s, e)
  ELSE Append(InsertSorted(SubSeq(s, 1, Len(s) - 1), e), s[Len(s)])

RECURSIVE SortFrom(_, _)
SortFrom(frame, k) == IF k = 0 THEN <<>> ELSE InsertSorted(SortFrom(frame, k - 1), frame[k])

\* frame.sort_values(by='Impact', ascending=True)
sort_values(frame) == SortFrom(frame, Len(frame))

\* ---- the generator script (data_generator.py 47-110) ----
Init ==
  /\ pc = "gen_before"
  /\ num_records \in 1..MaxN
  /\ pyState \in 0..MaxPySeed
  /\ npSalt \in 0..MaxSalt
  /\ npState = 0
  /\ df_before = <<>>
  /\ df_after = <<>>
  /\ file_before = NoFile
  /\ file_after = NoFile
  /\ merged = <<>>
  /\ reports = <<>>
  /\ dash = "idle"
  /\ df_merged = <<>>
  /\ dash_df_after = <<>>
  /\ model = NoModel
  /\ importance = <<>>
  /\ calls = <<>>
  /\ draws = 0

GenerateBefore ==
  /\ pc = "gen_before"
  /\ df_before' = generate_dma_data(num_records, "before", pyState)
  /\ pyState' = PyAfter(num_records, pyState)
  /\ npState' = NpAfter(num_records, "before")
  /\ pc' = "gen_after"
  /\ UNCHANGED <<num_records, npSalt, df_after, file_before, file_after, merged,
                 reports, dash, df_merged, dash_df_after, model, importance, calls, draws>>

GenerateAfter ==
  /\ pc = "gen_after"
  /\ df_after' = generate_dma_data(num_records, "after", pyState)
  /\ pyState' = PyAfter(num_records, pyState)
  /\ npState' = NpAfter(num_records, "after")
  /\ pc' = "floor"
  /\ UNCHANGED <<num_records, npSalt, df_before, file_before, file_after, merged,
                 reports, dash, df_merged, dash_df_after, model, importance, calls, draws>>

Five == [h |-> 500, d |-> 0]

\* df_after['Overall_Maturity'] = np.maximum(df_after[...], df_before[...] + 5)
ImprovementFloor ==
  /\ pc = "floor"
  /\ df_after' =
       [i \in 1..Len(df_after) |->
         [df_after[i] EXCEPT !["Overall_Maturity"] =
            np_maximum(@, FAdd(df_before[i]["Overall_Maturity"], Five))]]
  /\ pc' = "save_before"
  /\ UNCHANGED <<num_records, pyState, npState, npSalt, df_before, file_before,
                 file_after, merged, reports, dash, df_merged, dash_df_after,
                 model, importance, calls, draws>>

SaveBefore ==
  /\ pc = "save_before"
  /\ file_before' = to_excel(df_before)
  /\ pc' = "save_after"
  /\ UNCHANGED <<num_records, pyState, npState, npSalt, df_before, df_after,
                 file_after, merged, reports, dash, df_merged, dash_df_after,
                 model, importance, calls, draws>>

SaveAfter ==
  /\ pc = "save_after"
  /\ file_after' = to_excel(df_after)
  /\ pc' = "merge"
  /\ UNCHANGED <<num_records, pyState, npState, npSalt, df_before, df_after,
                 file_before, merged, reports, dash, df_merged, dash_df_after,
                 model, importance, calls, draws>>

\* merged = pd.merge(df_before, df_after, on="Company_ID", suffixes=('_B', '_A'))
ReportMerge ==
  /\ pc = "merge"
  /\ merged' = pd_merge(df_before, df_after, {"Company_ID"}, "_B", "_A")
  /\ pc' = "report"
  /\ UNCHANGED <<num_records, pyState, npState, npSalt, df_before, df_after,
                 file_before, file_after, reports, dash, df_merged, dash_df_after,
                 model, importance, calls, draws>>

\* one pass of: for i, row in merged.head(5).iterrows()
ReportStep ==
  /\ pc = "report"
  /\ Len(reports) < Len(head(merged, HEAD_ROWS))
  /\ LET i == Len(reports)
         row == head(merged, HEAD_ROWS)[i + 1]
         row_b == iloc(df_before, i)
         row_a == iloc(df_after, i)
         chart == create_radar_chart(row["Company_ID"], row_b, row_a)
     IN reports' = Append(reports,
          [file |-> "reports/Report_" \o row["Company_ID"] \o ".pdf",
           index |-> i,
           Company_ID |-> row["Company_ID"],
           header |-> <<row["Company_Name_A"], row["Sector_A"]>>,
           table |-> report_table(row),
           chart |-> chart,
           row_b |-> row_b,
           row_a |-> row_a])
  /\ UNCHANGED <<pc, num_records, pyState, npState, npSalt, df_before, df_after,
                 file_before, file_after, merged, dash, df_merged, dash_df_after,
                 model, importance, calls, draws>>

ReportsDone ==
  /\ pc = "report"
  /\ Len(reports) = Len(head(merged, HEAD_ROWS))
  /\ pc' = "done"
  /\ UNCHANGED <<num_records, pyState, npState, npSalt, df_before, df_after,
                 file_before, file_after, merged, reports, dash, df_merged,
                 dash_df_after, model, importance, calls, draws>>

\* ---- the dashboard (dashboard.py) ----
\* load_data(): a run of the dashboard before or after a run of the generator
LoadData ==
  /\ dash \in {"idle", "nodata"}
  /\ pc \in {"gen_before", "done"}
  /\ IF ~file_before.exists \/ ~file_after.exists
       THEN /\ df_merged' = <<>>
            /\ dash_df_after' = <<>>
            /\ dash' = "nodata"
       ELSE /\ df_merged' = load_data_merged(read_excel(file_before), read_excel(file_after))
            /\ dash_df_after' = read_excel(file_after)
            /\ dash' = "loaded"
  /\ UNCHANGED <<pc, num_records, pyState, npState, npSalt, df_before, df_after,
                 file_before, file_after, merged, reports, model, importance,
                 calls, draws>>

\* sections 1-3: the footprint of the selected company is df_merged[...].iloc[0]
DashSections ==
  /\ dash = "loaded"
  /\ dash' = IF Len(df_merged) = 0 THEN "crashed" ELSE "fit"
  /\ UNCHANGED <<pc, num_records, pyState, npState, npSalt, df_before, df_after,
                 file_before, file_after, merged, reports, df_merged,
                 dash_df_after, model, importance, calls, draws>>

\* model = LinearRegression().fit(df_after[dims], df_after['Overall_Maturity'])
FitModel ==
  /\ dash = "fit"
  /\ \E c \in [1..Len(dims) -> 0..MaxCoef] :
       model' = LinearRegression_fit(dash_df_after, dims, c)
  /\ dash' = "fitted"
  /\ UNCHANGED <<pc, num_records, pyState, npState, npSalt, df_before, df_after,
                 file_before, file_after, merged, reports, df_merged,
                 dash_df_after, importance, calls, draws>>

\* importance = DataFrame({'Dimension': labels, 'Impact': model.coef_}).sort_values(by='Impact')
RankImpact ==
  /\ dash = "fitted"
  /\ importance' = sort_values(importance_frame(labels, model.coef_))
  /\ dash' = "ranked"
  /\ UNCHANGED <<pc, num_records, pyState, npState, npSalt, df_before, df_after,
                 file_before, file_after, merged, reports, df_merged,
                 dash_df_after, model, calls, draws>>

Next ==
  \/ GenerateBefore
  \/ GenerateAfter
  \/ ImprovementFloor
  \/ SaveBefore
  \/ SaveAfter
  \/ ReportMerge
  \/ ReportStep
  \/ ReportsDone
  \/ LoadData
  \/ DashSections
  \/ FitModel
  \/ RankImpact

Spec == Init /\ [][Next]_vars

\* ---- the call harness: generate_dma_data called as a function ----
InitCalls ==
  /\ pc = "harness"
  /\ num_records = 0
  /\ pyState \in 0..MaxPySeed
  /\ npSalt \in 0..MaxSalt
  /\ npState = 0
  /\ df_before = <<>>
  /\ df_after = <<>>
  /\ file_before = NoFile
  /\ file_after = NoFile
  /\ merged = <<>>
  /\ reports = <<>>
  /\ dash = "off"
  /\ df_merged = <<>>
  /\ dash_df_after = <<>>
  /\ model = NoModel
  /\ importance = <<>>
  /\ calls = <<>>
  /\ draws = 0

CallGenerate ==
  /\ pc = "harness"
  /\ Len(calls) < MaxCalls
  /\ \E size \in 1..MaxCallN, label \in {"before", "after"} :
       /\ calls' = Append(calls, [n |-> size, state |-> label,
                                  df |-> generate_dma_data(size, label, pyState)])
       /\ pyState' = PyAfter(size, pyState)
       /\ npState' = NpAfter(size, label)
  /\ UNCHANGED <<pc, num_records, npSalt, df_before, df_after, file_before,
                 file_after, merged, reports, dash, df_merged, dash_df_after,
                 model, importance, draws>>

\* some other code of the process draws from Python's random module
OtherPyDraw ==
  /\ pc = "harness"
  /\ draws < MaxOtherDraws
  /\ pyState' = PyNext(pyState)
  /\ draws' = draws + 1
  /\ UNCHANGED <<pc, num_records, npState, npSalt, df_before, df_after, file_before,
                 file_after, merged, reports, dash, df_merged, dash_df_after,
                 model, importance, calls>>

\* some other code of the process draws from numpy's global generator
OtherNpDraw ==
  /\ pc = "harness"
  /\ draws < MaxOtherDraws
  /\ npState' = NpNext(npState)
  /\ draws' = draws + 1
  /\ UNCHANGED <<pc, num_records, pyState, npSalt, df_before, df_after, file_before,
                 file_after, merged, reports, dash, df_merged, dash_df_after,
                 model, importance, calls>>

NextCalls == CallGenerate \/ OtherPyDraw \/ OtherNpDraw

SpecCalls == InitCalls /\ [][NextCalls]_vars

\* ---- claims ----
\* the weighted average of a row's own six dimension values, in hundredths:
\* W = [0.25, 0.15, 0.10, 0.20, 0.20, 0.10]
WeightedAverage(row) ==
  25 * row["D_Strategy"] + 15 * row["D_Infrastructure"] + 10 * row["D_Human_Centric"]
  + 20 * row["D_Data_Mgmt"] + 20 * row["D_Automation_AI"] + 10 * row["D_Green_Digital"]

\* C1: every record of both panels the generator script writes out has an
\* Overall_Maturity equal to the weighted average of its own six dimension
\* values, rounded to 2 decimal places.
C1_OverallIsWeightedAverage ==
  \A f \in {file_before, file_after} :
    \A i \in 1..Len(f.rows) :
      f.rows[i]["Overall_Maturity"] = F64(WeightedAverage(f.rows[i]))

CompanyIds(df) == {df[i]["Company_ID"] : i \in 1..Len(df)}

\* C2: the merge of load_data holds exactly the Company_IDs present in both
\* input panels.
C2_MergeIsIntersection ==
  dash \in {"loaded", "crashed", "fit", "fitted", "ranked"} =>
    CompanyIds(df_merged) = CompanyIds(file_before.rows) \cap CompanyIds(file_after.rows)

\* C3: two calls of generate_dma_data with the same n and the same snapshot
\* label return identical panels, whatever was drawn before them.
C3_Deterministic ==
  \A i, j \in 1..Len(calls) :
    (calls[i].n = calls[j].n /\ calls[i].state = calls[j].state) => calls[i].df = calls[j].df

\* C4: every merged entity of the dashboard has Maturity_Growth >= 5.
C4_GrowthAtLeast5 ==
  dash \in {"loaded", "crashed", "fit", "fitted", "ranked"} =>
    \A i \in 1..Len(df_merged) : ~FLess(df_merged[i]["Maturity_Growth"], Five)

\* C5: fitting on an after panel of fewer than 7 rows (dimensions + 1) yields
\* no fitted model.
C5_UnderdeterminedFit ==
  (dash \in {"fitted", "ranked"} /\ Len(dash_df_after) < Len(dims) + 1) => ~model.fitted

\* C6: every dimension value of every record returned by generate_dma_data
\* is an integer in [0, 100].
C6_DimensionsInRange ==
  \A df \in {df_before, df_after} :
    \A i \in 1..Len(df) : \A c \in DimCols : df[i][c] \in 0..100

\* both panels are generated, a value was clipped at 0 and a value at 100
C6_Witness ==
  /\ pc = "floor"
  /\ \E i \in 1..Len(df_before) : \E c \in DimCols : df_before[i][c] = 0
  /\ \E i \in 1..Len(df_after) : \E c \in DimCols : df_after[i][c] = 100

DigitValue(ch) == CHOOSE k \in 0..9 : Digit[k + 1] = ch

RECURSIVE ParseDigits(_)
ParseDigits(s) ==
  IF Len(s) = 0 THEN 0
  ELSE 10 * ParseDigits(SubSeq(s, 1, Len(s) - 1)) + DigitValue(SubSeq(s, Len(s), Len(s)))

\* the sequential id i of a Company_ID "Company_<i>", -1 for any other string
ParseCompanyId(id) ==
  IF Len(id) > 8 /\ SubSeq(id, 1, 8) = "Company_"
       /\ \A k \in 9..Len(id) : \E v \in 0..9 : Digit[v + 1] = SubSeq(id, k, k)
    THEN ParseDigits(SubSeq(id, 9, Len(id)))
    ELSE -1

\* C7: within a panel of generate_dma_data the Company_IDs are pairwise
\* distinct and are Company_<i> for i = 1..n in order, and a merge on Company_ID
\* has at most one row per Company_ID.
C7_UniqueSequentialIds ==
  /\ \A df \in {df_before, df_after} :
       /\ \A i \in 1..Len(df) : ParseCompanyId(df[i]["Company_ID"]) = i
       /\ \A i, j \in 1..Len(df) : i # j => df[i]["Company_ID"] # df[j]["Company_ID"]
  /\ \A i, j \in 1..Len(merged) : i # j => merged[i]["Company_ID"] # merged[j]["Company_ID"]
  /\ \A i, j \in 1..Len(df_merged) : i # j => df_merged[i]["Company_ID"] # df_merged[j]["Company_ID"]

\* panels of several records are merged on Company_ID
C7_Witness == pc = "report" /\ Len(df_before) >= 2 /\ Len(merged) = Len(df_before)

\* the display label of a dimension column
DimensionLabel ==
  [D_Strategy |-> "Digital Strategy", D_Infrastructure |-> "Infrastructure",
   D_Human_Centric |-> "Staff Skills", D_Data_Mgmt |-> "Data Usage",
   D_Automation_AI |-> "AI & Robotics", D_Green_Digital |-> "Green Tech"]

\* C8: the impact ranking has exactly 6 entries, one per dimension, each
\* paired with the coefficient fitted for that dimension.
C8_RankIsPermutation ==
  dash = "ranked" =>
    /\ Len(importance) = 6
    /\ \A k \in 1..Len(model.features) :
         \E p \in 1..Len(importance) :
           /\ importance[p]["Dimension"] = DimensionLabel[model.features[k]]
           /\ importance[p]["Impact"] = model.coef_[k]
           /\ \A q \in 1..Len(importance) :
                importance[q]["Dimension"] = importance[p]["Dimension"] => q = p

\* a ranking whose order differs from the declaration order
C8_Witness ==
  /\ dash = "ranked"
  /\ importance[1]["Dimension"] # labels[1]
  /\ importance[1]["Impact"] < importance[6]["Impact"]

\* the closed polygon of a row: the six values in canonical order, then the first
ClosedPolygon(row) ==
  <<row["D_Strategy"], row["D_Infrastructure"], row["D_Human_Centric"],
    row["D_Data_Mgmt"], row["D_Automation_AI"], row["D_Green_Digital"], row["D_Strategy"]>>

\* C9: the before and after sequences of a radar polygon are the six
\* dimension values in canonical order followed by the first one again (7
\* elements), and the angle sequence has 7 elements and ends where it starts.
C9_ClosedPolygon ==
  \A r \in 1..Len(reports) :
    /\ reports[r].chart.v_b = ClosedPolygon(reports[r].row_b)
    /\ reports[r].chart.v_a = ClosedPolygon(reports[r].row_a)
    /\ Len(reports[r].chart.v_b) = 7
    /\ Len(reports[r].chart.v_a) = 7
    /\ Len(reports[r].chart.angles) = 7
    /\ reports[r].chart.angles[7] = reports[r].chart.angles[1]
    /\ \A k \in 1..5 : reports[r].chart.angles[k] < reports[r].chart.angles[k + 1]

\* a polygon whose first and sixth values differ, before and after
C9_Witness ==
  \E r \in 1..Len(reports) :
    /\ reports[r].chart.v_b[1] # reports[r].chart.v_b[6]
    /\ reports[r].chart.v_a[1] # reports[r].chart.v_a[6]

\* C10: the rows passed to create_radar_chart have the Company_ID of the
\* merged row of the report, so the polygon, the table and the file name of a
\* report describe one organization.
C10_ReportOfOneCompany ==
  \A r \in 1..Len(reports) :
    /\ reports[r].row_b["Company_ID"] = reports[r].Company_ID
    /\ reports[r].row_a["Company_ID"] = reports[r].Company_ID
    /\ reports[r].file = "reports/Report_" \o reports[r].Company_ID \o ".pdf"
    /\ \A j \in 1..Len(DIMENSIONS) :
         /\ reports[r].table[j][2] = reports[r].chart.v_b[j]
         /\ reports[r].table[j][3] = reports[r].chart.v_a[j]

\* all five reports of a panel of more than five organizations are written
C10_Witness == pc = "done" /\ Len(reports) = HEAD_ROWS /\ Len(merged) > HEAD_ROWS
====
